---------------------------- MODULE Spec2Model ----------------------------
(***************************************************************************)
(* A model of the export metadata engine of fmu-dataio:                    *)
(*   src/src/fmu/dataio/dataio.py              (ExportData)                *)
(*   src/src/fmu/dataio/providers/_filedata.py (FileDataProvider)          *)
(*                                                                         *)
(* Python strings that the code inspects character by character (names,    *)
(* tags, dates, file names) are sequences of one-character strings.  A     *)
(* fixed word such as "share" or ".yml" is a one-element sequence: no      *)
(* operation of the code looks inside it.  Python values that the code     *)
(* only compares (the fmu_context setting, content names) are TLA+         *)
(* strings, with None written "<None>".                                    *)
(***************************************************************************)
EXTENDS Integers, Sequences, FiniteSets, TLC

VARIABLES
    self,     \* the ExportData instance: its settings and its private state
    env,      \* the context the environment's run markers imply now
    dirs,     \* the directories on disk
    fs,       \* the files on disk: data files, sidecars, symlinks
    call,     \* the last call on the instance: its arguments and its outcome
    passed,   \* per setting, the value most recently passed by the caller;
              \* whether a call on the instance has raised
    fin,      \* FileDataProvider under test: the inputs of _get_filestem;
              \* SpecRace: per process, the settings of its instance
    fout      \* its outcome: "pending", or the returned stem / raised error;
              \* SpecPath: the last resolution; SpecFile: the document the
              \* caller holds; SpecRace: per process, where its resolution is

vars == <<self, env, dirs, fs, call, passed, fin, fout>>

(***************************************************************************)
(* Bounds                                                                  *)
(***************************************************************************)
MaxNameLen == 3     \* longest object name drawn for the file-stem check
MaxCalls   == 3     \* calls made on one ExportData instance

(***************************************************************************)
(* Python string operations                                                *)
(***************************************************************************)
\* str.lower() on one character
LowerChar(c) ==
    CASE c = "A" -> "a"
      [] c = "B" -> "b"
      [] c = "N" -> "n"
      [] c = "T" -> "t"
      [] c = "Æ" -> "æ"
      [] c = "Ø" -> "ø"
      [] c = "Å" -> "å"
      [] OTHER   -> c

PyLower(s) == [i \in DOMAIN s |-> LowerChar(s[i])]

\* str.replace(c, r) for a one-character pattern c
RECURSIVE PyReplace(_, _, _)
PyReplace(s, c, r) ==
    IF s = <<>> THEN <<>>
    ELSE (IF Head(s) = c THEN r ELSE <<Head(s)>>) \o PyReplace(Tail(s), c, r)

\* str.replace("__", "_"): leftmost non-overlapping occurrences, one pass
RECURSIVE ReplaceDoubleUnderscore(_)
ReplaceDoubleUnderscore(s) ==
    IF Len(s) < 2 THEN s
    ELSE IF s[1] = "_" /\ s[2] = "_"
         THEN <<"_">> \o ReplaceDoubleUnderscore(SubSeq(s, 3, Len(s)))
         ELSE <<s[1]>> \o ReplaceDoubleUnderscore(Tail(s))

HasDoubleUnderscore(s) ==
    \E i \in 1..(Len(s) - 1) : s[i] = "_" /\ s[i + 1] = "_"

\* the loop below, mutated: the replacement made once
CollapseOnce(s) == ReplaceDoubleUnderscore(s)

\* while "__" in stem: stem = stem.replace("__", "_")
RECURSIVE CollapseUnderscores(_)
CollapseUnderscores(s) ==
    IF HasDoubleUnderscore(s)
    THEN CollapseUnderscores(ReplaceDoubleUnderscore(s))
    ELSE s

\* s[0:n]
PySlice(s, n) == SubSeq(s, 1, IF Len(s) < n THEN Len(s) ELSE n)

\* "not x" for a string (or None): the empty string is false
Falsy(s) == s = <<>>

\* dates as the adapters hand them over
D2020     == <<"2","0","2","0","-","0","1","-","0","1">>
D2022     == <<"2","0","2","2","-","0","1","-","0","2">>
D2020Long == D2020 \o <<" ","0","0",":","0","0",":","0","0">>  \* str(datetime)
T1        == <<"t", "1">>                                       \* as the tests set it

(***************************************************************************)
(* FileDataProvider._get_filestem                                          *)
(***************************************************************************)
DateLen == 10    \* str(time)[0:10]

DatePart(t) == PyReplace(PySlice(t, DateLen), "-", <<>>)

\* the "remove unwanted characters" tail of _get_filestem
CleanStem(stem0) ==
    LET s1 == PyReplace(PyReplace(stem0, ".", <<"_">>), " ", <<"_">>)
        s2 == CollapseUnderscores(s1)
        s3 == PyReplace(s2, "æ", <<"a", "e">>)
        s4 == PyReplace(s3, "ø", <<"o", "e">>)
    IN  PyReplace(s4, "å", <<"a", "a">>)

\* the "--monitor_base" part, in the mutated order (a check of the order)
TimePartSwapped(time0, time1, reverse) ==
    LET monitor == DatePart(time1)
        base    == DatePart(time0)
    IN  IF reverse THEN <<"-", "-">> \o monitor \o <<"_">> \o base
        ELSE <<"-", "-">> \o base \o <<"_">> \o monitor

TimePart(time0, time1, reverse) ==
    LET monitor == DatePart(time1)
        base    == DatePart(time0)
    IN  IF reverse THEN <<"-", "-">> \o base \o <<"_">> \o monitor
        ELSE <<"-", "-">> \o monitor \o <<"_">> \o base

\* FileDataProvider.name
ProviderName(dname, oname) == IF ~Falsy(dname) THEN dname ELSE oname

\* the stem before the unwanted characters are removed: the name, the tag
\* appended, the parent prepended, the time part appended
ComposeStem(name, tagname, parent, time0, time1, reverse) ==
    (IF ~Falsy(parent) THEN PyLower(parent) \o <<"-", "-">> ELSE <<>>)
    \o PyLower(name)
    \o (IF ~Falsy(tagname) THEN <<"-", "-">> \o PyLower(tagname) ELSE <<>>)
    \o (IF ~Falsy(time0) /\ Falsy(time1) THEN <<"-", "-">> \o DatePart(time0)
        ELSE IF ~Falsy(time0) /\ ~Falsy(time1)
        THEN TimePart(time0, time1, reverse)
        ELSE <<>>)

\* "if not self.objdata.time0 and self.objdata.time1", mutated: the two
\* times exchanged
TimesIllegalSwapped(time0, time1) == Falsy(time1) /\ ~Falsy(time0)

\* "if not self.objdata.time0 and self.objdata.time1"
TimesIllegal(time0, time1) == Falsy(time0) /\ ~Falsy(time1)

\* the settings the message of a ValueError of _get_filestem names
ErrorMentions(err) ==
    CASE err = "The 'name' entry is missing" -> {"name"}
      [] err = "'time0' is missing while 'time1' is present"
           -> {"time0", "time1"}
      [] OTHER -> {}

\* FileDataProvider._get_filestem.  Result: err = "" and the stem, or the
\* ValueError raised.  warn: the "monitor date and base date are equal"
\* UserWarning.
get_filestem(dname, oname, tagname, parent, time0, time1, reverse) ==
    IF Falsy(ProviderName(dname, oname))
    THEN [err |-> "The 'name' entry is missing", stem |-> <<>>, warn |-> FALSE]
    ELSE IF TimesIllegal(time0, time1)
    THEN [err |-> "'time0' is missing while 'time1' is present",
          stem |-> <<>>, warn |-> FALSE]
    ELSE [err  |-> "",
          stem |-> CleanStem(ComposeStem(ProviderName(dname, oname), tagname,
                                         parent, time0, time1, reverse)),
          warn |-> ~Falsy(time0) /\ ~Falsy(time1)
                   /\ DatePart(time0) = DatePart(time1)]

(***************************************************************************)
(* FmuContext and the context resolver                                     *)
(***************************************************************************)
None == "<None>"

REALIZATION              == "FmuContext.REALIZATION"
CASE_CONTEXT             == "FmuContext.CASE"
CASE_SYMLINK_REALIZATION == "FmuContext.CASE_SYMLINK_REALIZATION"
PREPROCESSED             == "FmuContext.PREPROCESSED"
NON_FMU                  == "FmuContext.NON_FMU"

FmuContext ==
    {REALIZATION, CASE_CONTEXT, CASE_SYMLINK_REALIZATION, PREPROCESSED, NON_FMU}

\* the value of an enum member
ContextValue(m) ==
    CASE m = REALIZATION              -> "realization"
      [] m = CASE_CONTEXT             -> "case"
      [] m = CASE_SYMLINK_REALIZATION -> "case_symlink_realization"
      [] m = PREPROCESSED             -> "preprocessed"
      [] m = NON_FMU                  -> "non-fmu"

\* self.fmu_context.lower(): on a member of the (string) enum, the lower-cased
\* value; on a plain string, the string lower-cased
ContextLower(x) ==
    IF x \in FmuContext THEN ContextValue(x)
    ELSE CASE x = "REALIZATION"  -> "realization"
           [] x = "Preprocessed" -> "preprocessed"
           [] OTHER              -> x

\* FmuContext(value): the member with that value, or ValueError
FmuContextOf(v) ==
    IF \E m \in FmuContext : ContextValue(m) = v
    THEN [err |-> "", val |-> CHOOSE m \in FmuContext : ContextValue(m) = v]
    ELSE [err |-> "ValueError: not a valid FmuContext", val |-> None]

\* What get_fmu_context_from_environment() can return: the context implied
\* by the presence of the pipeline's run markers.
EnvContexts == {REALIZATION, CASE_CONTEXT, NON_FMU}

\* the force-override of a non-pipeline run, mutated: PREPROCESSED not spared
ForceNonFmuAlways(fmurun, ctx) == ~fmurun

ForceNonFmu(fmurun, ctx) == ~fmurun /\ ctx # PREPROCESSED

\* the force-set tail of _validate_and_establish_fmucontext, on the member
\* got from the setting or from the environment
EstablishContext(s, got) ==
    IF got.err # ""
    THEN [err |-> got.err, self |-> s, warn |-> FALSE]
    ELSE IF ForceNonFmu(s.fmurun, got.val)
    THEN [err |-> "", self |-> [s EXCEPT !.fmu_context = NON_FMU],
          warn |-> TRUE]
    ELSE [err |-> "", self |-> [s EXCEPT !.fmu_context = got.val],
          warn |-> FALSE]

\* ExportData._validate_and_establish_fmucontext.  e: the context the
\* environment implies now.  Result: err, the instance, warn (the context was
\* force set).
validate_and_establish_fmucontext(s, e) ==
    EstablishContext(s, IF s.fmu_context = None
                        THEN [err |-> "", val |-> e]
                        ELSE FmuContextOf(ContextLower(s.fmu_context)))

(***************************************************************************)
(* Content validation                                                      *)
(***************************************************************************)
\* A content is [type, key, payload]: type "none" (None), "str" (key is the
\* string), "dict" (key is the first key, payload its value) or "other".
\* Payloads: "notdict" (a value that is no mapping), "{}" (the empty
\* mapping), "{valid}", "{unknown}" (a field the sub-schema does not know),
\* "{missing}" (a field the sub-schema requires is not there).
ContentNone        == [type |-> "none", key |-> "", payload |-> None]
ContentStr(k)      == [type |-> "str", key |-> k, payload |-> None]
ContentDict(k, pl) == [type |-> "dict", key |-> k, payload |-> pl]
ContentOther       == [type |-> "other", key |-> "", payload |-> None]

\* AllowedContent: the taxonomy
AllowedContentFields == {"depth", "seismic", "fluid_contact", "field_region"}
requires_additional_input(k) == k \in {"seismic", "fluid_contact", "field_region"}

\* the names whose sub-schema has a required field (field_region: id)
RequiresFields == {"field_region"}

\* the payload conforms to the sub-schema of the name
Conforms(name, pl) ==
    \/ pl = "{valid}"
    \/ pl = "{}" /\ name \in AllowedContentFields \ RequiresFields

\* "if content_specific": a non-empty mapping
PayloadTruthy(pl) == pl \in {"{valid}", "{unknown}", "{missing}", "notdict"}

ContentFieldError == "ValidationError: The data will still be exported but no metadata will be made"

\* _content_validate: AllowedContent.model_validate({name: fields})
content_validate(name, fields) ==
    IF Conforms(name, fields)
    THEN [err |-> "", val |-> fields]
    ELSE [err |-> ContentFieldError, val |-> None]

\* _check_content
check_content(content) ==
    LET usecontent == IF content.type = "none" THEN "unset" ELSE content.key
        specific   == IF content.type = "dict" THEN content.payload ELSE None
    IN  IF content.type = "str" /\ requires_additional_input(content.key)
        THEN [err |-> "ValidationError: content requires additional input",
              usecontent |-> "", content_specific |-> None]
        ELSE IF content.type = "dict" /\ content.payload = "notdict"
        THEN [err |-> "ValueError: Content is incorrectly formatted",
              usecontent |-> "", content_specific |-> None]
        ELSE IF content.type = "other"
        THEN [err |-> "ValidationError: The 'content' must be string or dict",
              usecontent |-> "", content_specific |-> None]
        ELSE IF usecontent # "unset" /\ usecontent \notin AllowedContentFields
        THEN [err |-> "ValidationError: Invalid content",
              usecontent |-> "", content_specific |-> None]
        ELSE IF PayloadTruthy(specific)
        THEN LET v == content_validate(usecontent, specific)
             IN  [err |-> v.err, usecontent |-> usecontent,
                  content_specific |-> v.val]
        ELSE [err |-> "", usecontent |-> usecontent,
              content_specific |-> specific]

(***************************************************************************)
(* Paths.  A path is the sequence of its segments below "/", a segment a   *)
(* string (a sequence of characters or fixed words).                       *)
(***************************************************************************)
Share        == <<"share">>
Results      == <<"results">>
Observations == <<"observations">>
PreprocessedDir == <<"preprocessed">>

StartsWithSlash(s) == s # <<>> /\ Head(s) = "/"

\* Path.mkdir(parents=True, exist_ok=True)
Mkdir(ds, dest) == ds \cup {SubSeq(dest, 1, k) : k \in 1..Len(dest)}

IsPrefix(a, b) == Len(a) <= Len(b) /\ SubSeq(b, 1, Len(a)) = a

\* Path.relative_to(root)
RelativeTo(path, root) == SubSeq(path, Len(root) + 1, Len(path))

\* the characters str.encode("ascii") refuses
NonAscii == {"õ", "æ", "ø", "å", "Æ", "Ø", "Å"}

\* the ascii check, mutated: made of the file's name alone
PathIsAsciiNameOnly(path) ==
    \A j \in DOMAIN path[Len(path)] : path[Len(path)][j] \notin NonAscii

\* _derive_filedata_generic: str(abspath).encode("ascii") goes through
PathIsAscii(path) ==
    \A i \in DOMAIN path : \A j \in DOMAIN path[i] : path[i][j] \notin NonAscii

\* outroot, mutated: the run folders appended in every context
OutRootAnyMode(fp, mode) ==
    fp.rootpath
    \o (IF fp.realname # <<>> THEN <<fp.realname>> ELSE <<>>)
    \o (IF fp.itername # <<>> THEN <<fp.itername>> ELSE <<>>)

\* _get_path_generic: outroot, with the realization and iteration folders
OutRoot(fp, mode) ==
    fp.rootpath
    \o (IF mode = REALIZATION /\ fp.realname # <<>>
        THEN <<fp.realname>> ELSE <<>>)
    \o (IF mode = REALIZATION /\ fp.itername # <<>>
        THEN <<fp.itername>> ELSE <<>>)

\* _get_path_generic: share/preprocessed, share/observations, share/results
ShareFolder(d, mode) ==
    IF mode = PREPROCESSED THEN <<Share, PreprocessedDir>>
    ELSE IF d.is_observation THEN <<Share, Observations>>
    ELSE <<Share, Results>>

\* Path(forcefolder): the parts of an absolute folder, split at "/"
RECURSIVE PathParts(_, _)
PathParts(s, part) ==
    IF s = <<>> THEN (IF part = <<>> THEN <<>> ELSE <<part>>)
    ELSE IF Head(s) = "/"
    THEN (IF part = <<>> THEN <<>> ELSE <<part>>) \o PathParts(Tail(s), <<>>)
    ELSE PathParts(Tail(s), Append(part, Head(s)))

\* dest, mutated: any forcefolder replaces the whole destination
DestinationReplaced(d, fp, mode) ==
    (IF StartsWithSlash(d.forcefolder) THEN PathParts(d.forcefolder, <<>>)
     ELSE IF d.forcefolder # <<>> THEN <<d.forcefolder>>
     ELSE OutRoot(fp, mode) \o ShareFolder(d, mode) \o <<fp.efolder>>)
    \o (IF d.subfolder # <<>> THEN <<d.subfolder>> ELSE <<>>)

\* _get_path_generic: dest, the forcefolder and the subfolder applied
Destination(d, fp, mode) ==
    (IF StartsWithSlash(d.forcefolder) THEN PathParts(d.forcefolder, <<>>)
     ELSE OutRoot(fp, mode) \o ShareFolder(d, mode) \o <<fp.efolder>>)
    \o (IF d.subfolder # <<>> THEN <<d.subfolder>> ELSE <<>>)

\* the verification, mutated: the destination is returned unseen
VerifyFolderSkipped(d, dest, forced, made) ==
    [err |-> "", dest |-> dest, forced |-> forced, dirs |-> made]

\* _get_path_generic: "if self.dataio.verifyfolder and not dest.exists()"
VerifyFolder(d, dest, forced, made) ==
    IF d.verifyfolder /\ dest \notin made
    THEN [err |-> "OSError: Folder is not present", dest |-> <<>>,
          forced |-> forced, dirs |-> made]
    ELSE [err |-> "", dest |-> dest, forced |-> forced, dirs |-> made]

\* the creation, mutated: mkdir without exist_ok
CreateFolderNoExistOk(d, dest, forced, ds) ==
    IF d.createfolder /\ dest \in ds
    THEN [err |-> "FileExistsError", dest |-> <<>>, forced |-> forced,
          dirs |-> ds]
    ELSE VerifyFolder(d, dest, forced,
                      IF d.createfolder THEN Mkdir(ds, dest) ELSE ds)

\* _get_path_generic: "if self.dataio.createfolder", then the verification
CreateFolder(d, dest, forced, ds) ==
    VerifyFolder(d, dest, forced, IF d.createfolder THEN Mkdir(ds, dest) ELSE ds)

\* the refusal of an absolute forcefolder, mutated: the flag read inverted
AbsoluteRefusedInverted(d) ==
    StartsWithSlash(d.forcefolder) /\ d.allow_forcefolder_absolute

\* _get_path_generic: "if not self.dataio.allow_forcefolder_absolute"
AbsoluteRefused(d) ==
    StartsWithSlash(d.forcefolder) /\ ~d.allow_forcefolder_absolute

\* the refusal for the symlink destination, mutated: left out
ForcefolderDisallowedNever(d, allow_forcefolder) == FALSE

\* _get_path_generic: "if not allow_forcefolder"
ForcefolderDisallowed(d, allow_forcefolder) ==
    StartsWithSlash(d.forcefolder) /\ ~allow_forcefolder

\* FileDataProvider._get_path_generic.  d: the ExportData instance; fp: the
\* provider's rootpath, realname, itername and objdata.  Result: err, dest,
\* forced (forcefolder_is_absolute was set), dirs (the directories after it).
get_path_generic(d, fp, mode, allow_forcefolder, ds) ==
    IF mode = PREPROCESSED /\ StartsWithSlash(d.forcefolder)
    THEN [err |-> "ValueError: Cannot use absolute path to 'forcefolder' with preprocessed data",
          dest |-> <<>>, forced |-> FALSE, dirs |-> ds]
    ELSE IF AbsoluteRefused(d)
    THEN [err |-> "ValueError: The forcefolder includes an absolute path",
          dest |-> <<>>, forced |-> FALSE, dirs |-> ds]
    ELSE IF ForcefolderDisallowed(d, allow_forcefolder)
    THEN [err |-> "RuntimeError: You cannot use forcefolder in combination with fmucontext",
          dest |-> <<>>, forced |-> TRUE, dirs |-> ds]
    ELSE CreateFolder(d, Destination(d, fp, mode),
                      StartsWithSlash(d.forcefolder), ds)

\* _get_path: the destination a, and the symlink destination b
WithLinkDest(a, b) ==
    [err |-> b.err, dest |-> a.dest, linkdest |-> b.dest,
     forced |-> a.forced \/ b.forced, dirs |-> b.dirs]

\* the symlink destination, mutated: resolved in the instance's own context
LinkDestOwnContext(d, fp, a) ==
    IF a.err # ""
    THEN [err |-> a.err, dest |-> <<>>, linkdest |-> <<>>, forced |-> a.forced,
          dirs |-> a.dirs]
    ELSE IF d.fmu_context = CASE_SYMLINK_REALIZATION
    THEN WithLinkDest(a, get_path_generic(d, fp, d.fmu_context, FALSE, a.dirs))
    ELSE [err |-> "", dest |-> a.dest, linkdest |-> <<>>, forced |-> a.forced,
          dirs |-> a.dirs]

\* _get_path: after the destination a, the symlink destination under
\* CASE_SYMLINK_REALIZATION
LinkDest(d, fp, a) ==
    IF a.err # ""
    THEN [err |-> a.err, dest |-> <<>>, linkdest |-> <<>>, forced |-> a.forced,
          dirs |-> a.dirs]
    ELSE IF d.fmu_context = CASE_SYMLINK_REALIZATION
    THEN WithLinkDest(a, get_path_generic(d, fp, REALIZATION, FALSE, a.dirs))
    ELSE [err |-> "", dest |-> a.dest, linkdest |-> <<>>, forced |-> a.forced,
          dirs |-> a.dirs]

\* FileDataProvider._get_path: the destination and, under
\* CASE_SYMLINK_REALIZATION, the symlink destination (else <<>>)
get_path(d, fp, ds) ==
    LinkDest(d, fp, get_path_generic(d, fp, d.fmu_context, TRUE, ds))

\* the relative path, mutated: under a forced absolute folder always the
\* absolute path
RelativePathForcedAbsolute(fp, path, forced) ==
    IF ~PathIsAscii(path)
    THEN [err |-> "UnicodeEncodeError", rel |-> <<>>, abs |-> <<>>]
    ELSE IF forced
    THEN [err |-> "", rel |-> path, abs |-> path]
    ELSE IF IsPrefix(fp.rootpath, path)
    THEN [err |-> "", rel |-> RelativeTo(path, fp.rootpath), abs |-> path]
    ELSE [err |-> "ValueError: not in the subpath", rel |-> <<>>,
          abs |-> <<>>]

\* _derive_filedata_generic: the ascii check and the path relative to root
RelativePath(fp, path, forced) ==
    IF ~PathIsAscii(path)
    THEN [err |-> "UnicodeEncodeError", rel |-> <<>>, abs |-> <<>>]
    ELSE IF IsPrefix(fp.rootpath, path)
    THEN [err |-> "", rel |-> RelativeTo(path, fp.rootpath), abs |-> path]
    ELSE IF forced
    THEN [err |-> "", rel |-> path, abs |-> path]
    ELSE [err |-> "ValueError: not in the subpath", rel |-> <<>>,
          abs |-> <<>>]

\* _derive_filedata_generic: the path of the stem st under inrelpath
StemPath(fp, st, inrelpath, forced) ==
    IF st.err # ""
    THEN [err |-> "ValueError: " \o st.err, rel |-> <<>>, abs |-> <<>>]
    ELSE RelativePath(fp, Append(inrelpath, PyLower(st.stem) \o fp.extension),
                      forced)

\* FileDataProvider._derive_filedata_generic.  Result: err, rel, abs.
derive_filedata_generic(d, fp, inrelpath, forced) ==
    StemPath(fp,
             get_filestem(d.name, fp.oname, d.tagname, d.parent,
                          fp.time0, fp.time1, d.filename_timedata_reverse),
             inrelpath, forced)

\* What export_file_compute_checksum_md5 writes for an object under a format
\* flag, and the checksum it returns for what it wrote.
Serialise(obj, flag) ==
    [data |-> obj.bytes, flag |-> IF flag \in {"", "False"} THEN "" ELSE flag]
Md5(filebody) == <<"md5", filebody.data, filebody.flag>>

\* FileDataProvider._compute_md5: the checksum of a temporary file
compute_md5(d, fp, obj) ==
    IF fp.extension = <<>> \/ Head(fp.extension) # "."
    THEN [err |-> "ValueError: An extension must start with '.'", val |-> <<>>]
    ELSE [err |-> "", val |-> Md5(Serialise(obj, d.usefmtflag))]

NoFile ==
    [absolute_path |-> <<>>, relative_path |-> <<>>, checksum_md5 |-> <<>>,
     relative_path_symlink |-> <<>>, absolute_path_symlink |-> <<>>]

\* get_metadata: meta.File(...) of the paths f1, the symlink paths f2 and the
\* checksum ck
FileBlock(ds, f1, f2, ck) ==
    IF f1.err # "" THEN [err |-> f1.err, file |-> NoFile, dirs |-> ds]
    ELSE IF f2.err # "" THEN [err |-> f2.err, file |-> NoFile, dirs |-> ds]
    ELSE IF ck.err # "" THEN [err |-> ck.err, file |-> NoFile, dirs |-> ds]
    ELSE [err |-> "", dirs |-> ds,
          file |-> [absolute_path |-> f1.abs, relative_path |-> f1.rel,
                    checksum_md5 |-> ck.val,
                    relative_path_symlink |-> f2.rel,
                    absolute_path_symlink |-> f2.abs]]

\* get_metadata, after _get_path returned p
FileDataOf(d, fp, obj, want_md5, p) ==
    IF p.err # "" THEN [err |-> p.err, file |-> NoFile, dirs |-> p.dirs]
    ELSE FileBlock(p.dirs,
                   derive_filedata_generic(d, fp, p.dest, p.forced),
                   IF p.linkdest # <<>>
                   THEN derive_filedata_generic(d, fp, p.linkdest, p.forced)
                   ELSE [err |-> "", rel |-> <<>>, abs |-> <<>>],
                   IF want_md5 THEN compute_md5(d, fp, obj)
                   ELSE [err |-> "", val |-> <<>>])

\* FileDataProvider.get_metadata: the file block.  Result: err, file, dirs.
get_metadata(d, fp, obj, want_md5, ds) ==
    FileDataOf(d, fp, obj, want_md5, get_path(d, fp, ds))

(***************************************************************************)
(* ExportData                                                              *)
(***************************************************************************)
Unset  == "<unset>"         \* a keyword the caller did not pass
UnsetS == <<"<unset>">>
ContentUnset == [type |-> "unset", key |-> "", payload |-> None]

NoKw ==
    [name |-> UnsetS, tagname |-> UnsetS, subfolder |-> UnsetS,
     content |-> ContentUnset, fmu_context |-> Unset,
     classification |-> Unset, bad |-> "none"]

\* the setattr loop of _update_check_settings, over the keywords passed
MergeSettings(s, kw) ==
    [s EXCEPT
       !.name           = IF kw.name = UnsetS THEN @ ELSE kw.name,
       !.tagname        = IF kw.tagname = UnsetS THEN @ ELSE kw.tagname,
       !.subfolder      = IF kw.subfolder = UnsetS THEN @ ELSE kw.subfolder,
       !.content        = IF kw.content = ContentUnset THEN @ ELSE kw.content,
       !.fmu_context    = IF kw.fmu_context = Unset THEN @ ELSE kw.fmu_context,
       !.classification = IF kw.classification = Unset THEN @
                          ELSE kw.classification]

\* _validate_content_key: the pair _check_content returned, stored
StoreContent(s, c) ==
    [err |-> c.err,
     self |-> IF c.err # "" THEN s
              ELSE [s EXCEPT !.usecontent = c.usecontent,
                             !.content_specific = c.content_specific]]

\* ExportData._validate_content_key
validate_content_key(s) == StoreContent(s, check_content(s.content))

\* _update_check_settings, after _validate_content_key returned c
ThenEstablishContext(c, e) ==
    IF c.err # "" THEN [err |-> c.err, self |-> c.self, warn |-> FALSE]
    ELSE validate_and_establish_fmucontext(c.self, e)

\* ExportData._update_check_settings.  kw.bad: "config" (the keyword config
\* was passed), "invalid_first" / "invalid_last" (a keyword _validate_variable
\* refuses, before / after the other keywords), "none".
update_check_settings(s, kw, e) ==
    IF kw.bad = "config"
    THEN [err |-> "ValueError: Cannot have 'config' outside instance initialization",
          self |-> s, warn |-> FALSE]
    ELSE IF kw.bad = "invalid_first"
    THEN [err |-> "ValidationError: The input key is not supported",
          self |-> s, warn |-> FALSE]
    ELSE IF kw.bad = "invalid_last"
    THEN [err |-> "ValidationError: The input key is not supported",
          self |-> MergeSettings(s, kw), warn |-> FALSE]
    ELSE ThenEstablishContext(validate_content_key(MergeSettings(s, kw)), e)

\* ExportData._validate_access_ssdl_key
validate_access_ssdl_key(s) ==
    IF s.classification # None /\ s.access_level
    THEN "ValueError: Conflicting arguments"
    ELSE ""

\* the adoption in _check_process_object: x = x or preprocessed.get(...)
Adopt(current, prior) == IF ~Falsy(current) THEN current ELSE prior

\* ExportData._check_process_object
check_process_object(s, obj) ==
    IF obj.kind # "path" THEN [err |-> "", self |-> s]
    ELSE IF ~obj.exists
    THEN [err |-> "ValidationError: The file does not exist", self |-> s]
    ELSE IF ~obj.marker
    THEN [err |-> "ValidationError: <_preprocessed> is missing in the metadata",
          self |-> [s EXCEPT !.reuse_metadata = TRUE]]
    ELSE [err |-> "",
          self |-> [s EXCEPT !.reuse_metadata = TRUE,
                             !.name      = Adopt(@, obj.pname),
                             !.tagname   = Adopt(@, obj.ptag),
                             !.subfolder = Adopt(@, obj.psub)]]

\* objdata.efolder: the standard folder of the object's type, replaced by a
\* relative forcefolder
ObjectFolder(s, standard) ==
    IF s.forcefolder # <<>> /\ ~StartsWithSlash(s.forcefolder)
    THEN s.forcefolder
    ELSE standard

\* What generate_export_metadata hands to FileDataProvider: the root path and
\* the run identifiers of the FmuProvider (a pipeline run only), and the
\* object's own name, times, folder and extension from its adapter.
ProviderInputs(s, obj, e) ==
    [rootpath  |-> IF s.fmurun THEN << <<"case">> >> ELSE << <<"project">> >>,
     realname  |-> IF s.fmurun /\ e = REALIZATION THEN <<"realization-0">> ELSE <<>>,
     itername  |-> IF s.fmurun /\ e = REALIZATION THEN <<"iter-0">> ELSE <<>>,
     oname     |-> obj.oname,
     time0     |-> obj.time0,
     time1     |-> obj.time1,
     efolder   |-> ObjectFolder(s, obj.efolder),
     extension |-> obj.ext]

\* generate_metadata, after generate_export_metadata returned the file
\* block m for the instance s
StoreMetadata(s, m, warn) ==
    IF m.err # ""
    THEN [err |-> m.err, stage |-> "filedata", self |-> s,
          dirs |-> m.dirs, meta |-> NoFile, warn |-> warn]
    ELSE [err |-> "", stage |-> "done",
          self |-> [s EXCEPT !.metadata = m.file],
          dirs |-> m.dirs, meta |-> m.file, warn |-> warn]

\* generate_metadata, after _check_process_object returned o
ThenFileData(o, obj, want_md5, e, ds, warn) ==
    IF o.err # ""
    THEN [err |-> o.err, stage |-> "object", self |-> o.self, dirs |-> ds,
          meta |-> NoFile, warn |-> warn]
    ELSE StoreMetadata(o.self,
                       get_metadata(o.self, ProviderInputs(o.self, obj, e),
                                    obj, want_md5, ds),
                       warn)

\* generate_metadata, after _update_check_settings returned u
ThenProcessObject(u, obj, want_md5, e, ds) ==
    IF u.err # ""
    THEN [err |-> u.err, stage |-> "settings", self |-> u.self, dirs |-> ds,
          meta |-> NoFile, warn |-> FALSE]
    ELSE IF validate_access_ssdl_key(u.self) # ""
    THEN [err |-> validate_access_ssdl_key(u.self), stage |-> "access",
          self |-> u.self, dirs |-> ds, meta |-> NoFile, warn |-> u.warn]
    ELSE ThenFileData(check_process_object(u.self, obj), obj, want_md5, e, ds,
                      u.warn)

\* ExportData.generate_metadata.  Result: err and the stage that raised it,
\* the instance, the directories, the returned document, the context warning.
generate_metadata(s, obj, want_md5, kw, e, ds) ==
    ThenProcessObject(update_check_settings(s, kw, e), obj, want_md5, e, ds)

(***************************************************************************)
(* The disk: sets of [path, body].  A data file's body is what was         *)
(* serialised into it, a sidecar's the metadata document, a symlink's the  *)
(* path it points to.                                                      *)
(***************************************************************************)
Has(F, p)      == \E r \in F : r.path = p
Lookup(F, p)   == (CHOOSE r \in F : r.path = p).body
Write(F, p, b) == {r \in F : r.path # p} \cup {[path |-> p, body |-> b]}

Parent(path)   == SubSeq(path, 1, Len(path) - 1)
BaseName(path) == IF path = <<>> THEN <<>> ELSE path[Len(path)]

\* "." + name + ".yml", beside the file
SidecarOf(path) == Append(Parent(path), <<".">> \o BaseName(path) \o <<".yml">>)

\* export_metadata_file(file, metadata, savefmt): the document written as
\* YAML to the file named, or as JSON to the file of that name ending ".json"
export_metadata_file(metas, file, doc, savefmt) ==
    Write(metas,
          IF savefmt = "json"
          THEN Append(Parent(file), PyReplace(BaseName(file), ".yml", <<".json">>))
          ELSE file,
          doc)

\* create_symlink(source, target)
create_symlink(links, source, target) == Write(links, target, source)

\* export(): "if self._config_is_valid", mutated: the sidecar is always written
WriteSidecarAlways(s) == TRUE

\* export(): "if self._config_is_valid"
WriteSidecar(s) == s.config_is_valid

\* the document export() writes as the sidecar, mutated: taken before the
\* checksum is injected
SidecarBeforeChecksum(generated, injected) == generated

\* the document export() writes as the sidecar: metadata, the checksum injected
SidecarDocument(generated, injected) == injected

\* export() stops where generate_metadata raises
ExportAborts(g) == g.err # ""

\* the files after generate_metadata raised, mutated: the object is written
\* before the metadata is generated
FilesWrittenFirst(g, obj, files) ==
    [files EXCEPT !.data =
       Write(@, <<obj.oname \o obj.ext>>, Serialise(obj, g.self.usefmtflag))]

\* the files after generate_metadata raised inside export(): as they were
FilesOnAbort(g, obj, files) == files

\* the steps of an export() that went through, in order
StepsTaken(sidecar, linked) ==
    <<"generate_metadata", "export_file", "checksum">>
    \o (IF sidecar THEN <<"export_metadata_file">> ELSE <<>>)
    \o (IF linked THEN <<"create_symlink">> ELSE <<>>)

\* export(): the symlinks of the data file and of the sidecar, the instance's
\* metadata replaced, the path returned
ThenSymlink(g, injected, return_symlink, ds, files) ==
    LET outfile == injected.absolute_path
        target  == injected.absolute_path_symlink
    IN  [err |-> "", stage |-> "done",
         self |-> [g.self EXCEPT !.metadata = injected],
         dirs |-> IF target # <<>> THEN Mkdir(ds, Parent(target)) ELSE ds,
         fs |-> IF target # <<>>
                THEN [files EXCEPT !.link =
                        create_symlink(
                          create_symlink(@, outfile, target),
                          SidecarOf(outfile),
                          Append(Parent(target), BaseName(SidecarOf(outfile))))]
                ELSE files,
         ret |-> IF return_symlink /\ target # <<>> THEN target ELSE outfile,
         warns |-> (IF g.warn THEN {"context force set"} ELSE {})
                   \cup (IF WriteSidecar(g.self) THEN {}
                         ELSE {"exported without metadata"}),
         steps |-> StepsTaken(WriteSidecar(g.self), target # <<>>),
         generated |-> g.meta]

\* export(): the sidecar written, if the configuration is valid
ThenSidecar(g, injected, return_symlink, ds, files) ==
    ThenSymlink(g, injected, return_symlink, ds,
                IF WriteSidecar(g.self)
                THEN [files EXCEPT !.meta =
                        export_metadata_file(
                          @, SidecarOf(injected.absolute_path),
                          SidecarDocument(g.self.metadata, injected),
                          g.self.meta_format)]
                ELSE files)

\* export(): the checksum of the written file injected into the metadata
ThenChecksum(g, return_symlink, ds, files) ==
    ThenSidecar(g,
                [g.self.metadata EXCEPT !.checksum_md5 =
                   Md5(Lookup(files.data, g.self.metadata.absolute_path))],
                return_symlink, ds, files)

\* export(): the folder of the output file made, the object written
ThenExportFile(g, obj, return_symlink, files) ==
    IF ExportAborts(g)
    THEN [err |-> g.err, stage |-> g.stage, self |-> g.self,
          dirs |-> g.dirs, fs |-> FilesOnAbort(g, obj, files), ret |-> <<>>,
          warns |-> IF g.warn THEN {"context force set"} ELSE {},
          steps |-> <<>>, generated |-> NoFile]
    ELSE ThenChecksum(g, return_symlink,
                      Mkdir(g.dirs, Parent(g.self.metadata.absolute_path)),
                      [files EXCEPT !.data =
                         Write(@, g.self.metadata.absolute_path,
                               Serialise(obj,
                                         IF obj.dataframe
                                         THEN g.self.table_include_index
                                         ELSE g.self.usefmtflag))])

\* ExportData.export.  Result: err and stage, the instance, the directories,
\* the files, the returned path, the warnings, the steps taken in order.
export(s, obj, return_symlink, kw, e, ds, files) ==
    ThenExportFile(generate_metadata(s, obj, FALSE, kw, e, ds), obj,
                   return_symlink, files)

\* ExportData.__post_init__, on the dataclass fields as constructed
post_init(args, legacy_access_level, valid, e) ==
    LET s0 == MergeSettings(
                [name |-> <<>>, tagname |-> <<>>, subfolder |-> <<>>,
                 forcefolder |-> <<>>, parent |-> <<>>,
                 content |-> ContentNone, fmu_context |-> None,
                 classification |-> None, access_level |-> legacy_access_level,
                 is_observation |-> FALSE,
                 allow_forcefolder_absolute |-> FALSE,
                 filename_timedata_reverse |-> FALSE,
                 createfolder |-> TRUE, verifyfolder |-> TRUE,
                 table_include_index |-> "False", meta_format |-> "yaml",
                 usecontent |-> "", content_specific |-> None,
                 usefmtflag |-> "", metadata |-> NoFile,
                 config_is_valid |-> TRUE, fmurun |-> e # NON_FMU,
                 reuse_metadata |-> FALSE],
                args)
        c  == validate_content_key(s0)
        x  == validate_and_establish_fmucontext(c.self, e)
    IN  IF c.err # "" THEN [err |-> c.err, self |-> s0, warn |-> FALSE]
        ELSE IF x.err # "" THEN [err |-> x.err, self |-> s0, warn |-> FALSE]
        ELSE [err |-> "", self |-> [x.self EXCEPT !.config_is_valid = valid],
              warn |-> x.warn]

(***************************************************************************)
(* The objects handed to generate_metadata() and export()                  *)
(***************************************************************************)
N1 == <<"n1">>    \* names, tags and folders of the callers
N2 == <<"N", "2">>
TG == <<"tg">>
SF == <<"sf">>

MemObject(id, oname, time0, time1) ==
    [id |-> id, kind |-> "mem", oname |-> oname, time0 |-> time0,
     time1 |-> time1, ext |-> <<".", "gri">>, efolder |-> <<"maps">>,
     bytes |-> id, dataframe |-> FALSE, exists |-> TRUE, marker |-> FALSE,
     pname |-> <<>>, ptag |-> <<>>, psub |-> <<>>]

\* a file on disk whose sidecar holds (marker) the block _preprocessed
PathObject(id, exists, marker, pname, ptag, psub) ==
    [id |-> id, kind |-> "path", oname |-> <<>>, time0 |-> <<>>,
     time1 |-> <<>>, ext |-> <<".", "gri">>, efolder |-> <<"maps">>,
     bytes |-> id, dataframe |-> FALSE, exists |-> exists, marker |-> marker,
     pname |-> pname, ptag |-> ptag, psub |-> psub]

Surface     == MemObject("surface", <<"s">>, <<>>, <<>>)
Unnamed     == MemObject("cube", <<>>, <<>>, <<>>)
BadTimes    == MemObject("badtimes", <<"s">>, <<>>, D2020)
FileA       == PathObject("fileA", TRUE, TRUE, <<"pa">>, <<"ta">>, <<"fa">>)
FileB       == PathObject("fileB", TRUE, TRUE, <<"pb">>, <<>>, <<"fb">>)
FileNoMark  == PathObject("fileN", TRUE, FALSE, <<>>, <<>>, <<>>)
FileMissing == PathObject("fileM", FALSE, FALSE, <<>>, <<>>, <<>>)
\* a pandas DataFrame, written as .csv under tables
Table       == [MemObject("table", <<"t">>, <<>>, <<>>) EXCEPT
                  !.ext = <<".", "csv">>, !.efolder = <<"tables">>,
                  !.dataframe = TRUE]

AllObjects ==
    {Surface, Unnamed, BadTimes, FileA, FileB, FileNoMark, FileMissing, Table}

ObjectOf(id) == CHOOSE o \in AllObjects : o.id = id

(***************************************************************************)
(* The calls                                                               *)
(***************************************************************************)
MergePassed(p, kw) ==
    [name           |-> IF kw.name = UnsetS THEN p.name ELSE kw.name,
     tagname        |-> IF kw.tagname = UnsetS THEN p.tagname ELSE kw.tagname,
     subfolder      |-> IF kw.subfolder = UnsetS THEN p.subfolder
                        ELSE kw.subfolder,
     content        |-> IF kw.content = ContentUnset THEN p.content
                        ELSE kw.content,
     fmu_context    |-> IF kw.fmu_context = Unset THEN p.fmu_context
                        ELSE kw.fmu_context,
     classification |-> IF kw.classification = Unset THEN p.classification
                        ELSE kw.classification]

Defaults ==
    [name |-> <<>>, tagname |-> <<>>, subfolder |-> <<>>,
     content |-> ContentNone, fmu_context |-> None, classification |-> None]

\* the state after ExportData(**args), args and the environment drawn from
\* the given sets; a construction that raises leaves no instance
Construct(Args, Legacy, Valid, Envs) ==
    \E args \in Args, lg \in Legacy, v \in Valid, e \in Envs :
        LET r == post_init(args, lg, v, e) IN
        /\ r.err = ""
        /\ self = r.self
        /\ env = e
        /\ dirs = { << <<"case">> >>, << <<"project">> >> }
        /\ fs = [data |-> {}, meta |-> {}, link |-> {}]
        /\ call = [n |-> 0, op |-> "init", obj |-> "", kw |-> args,
                   md5 |-> FALSE, err |-> "", stage |-> "done",
                   warns |-> IF r.warn THEN {"context force set"} ELSE {},
                   steps |-> <<>>, ret |-> <<>>, meta |-> NoFile,
                   env |-> e]
        /\ passed = [last |-> MergePassed(Defaults, args), failed |-> FALSE]

\* the files after generate_metadata(), mutated: the temporary file of
\* _compute_md5 is still there
TemporaryFileKept(files, obj, flag, want_md5) ==
    IF want_md5
    THEN [files EXCEPT !.data =
            Write(@, << <<"tmp">>, <<"tmp0">> \o obj.ext >>,
                  Serialise(obj, flag))]
    ELSE files

\* the files after generate_metadata(): the NamedTemporaryFile of
\* _compute_md5 is deleted when its with-block is left, and nothing else is
\* written
FilesAfterGenerate(files, obj, flag, want_md5) == files

\* the instance, the disk and the record of the call after a call of
\* generate_metadata() whose outcome is r
GeneratedCall(r, obj, want_md5, kw) ==
    /\ self' = r.self
    /\ dirs' = r.dirs
    /\ fs' = FilesAfterGenerate(fs, obj, r.self.usefmtflag,
                                want_md5 /\ r.err = "")
    /\ call' = [n |-> call.n + 1, op |-> "generate_metadata",
                obj |-> obj.id, kw |-> kw, md5 |-> want_md5,
                err |-> r.err, stage |-> r.stage,
                warns |-> IF r.warn THEN {"context force set"} ELSE {},
                steps |-> <<>>, ret |-> <<>>, meta |-> r.meta,
                env |-> env]
    /\ passed' = [last |-> MergePassed(passed.last, kw),
                  failed |-> passed.failed \/ r.err # ""]

\* the state after a call of generate_metadata() whose outcome is r
Generated(r, obj, want_md5, kw) ==
    /\ GeneratedCall(r, obj, want_md5, kw)
    /\ UNCHANGED <<env, fin, fout>>

GenerateMetadata(obj, want_md5, kw) ==
    /\ call.n < MaxCalls
    /\ Generated(generate_metadata(self, obj, want_md5, kw, env, dirs),
                 obj, want_md5, kw)

\* the instance, the disk and the record of the call after a call of
\* export() whose outcome is r
ExportedCall(r, obj, kw) ==
    /\ self' = r.self
    /\ dirs' = r.dirs
    /\ fs' = r.fs
    /\ call' = [n |-> call.n + 1, op |-> "export", obj |-> obj.id,
                kw |-> kw, md5 |-> FALSE, err |-> r.err,
                stage |-> r.stage, warns |-> r.warns, steps |-> r.steps,
                ret |-> r.ret, meta |-> r.generated, env |-> env]
    /\ passed' = [last |-> MergePassed(passed.last, kw),
                  failed |-> passed.failed \/ r.err # ""]

\* the state after a call of export() whose outcome is r
Exported(r, obj, kw) ==
    /\ ExportedCall(r, obj, kw)
    /\ UNCHANGED <<env, fin, fout>>

Export(obj, return_symlink, kw) ==
    /\ call.n < MaxCalls
    /\ Exported(export(self, obj, return_symlink, kw, env, dirs, fs), obj, kw)

\* the run markers of the environment change between two calls
EnvChange(e) ==
    /\ call.n < MaxCalls
    /\ e # env
    /\ env' = e
    /\ UNCHANGED <<self, dirs, fs, call, passed, fin, fout>>

(***************************************************************************)
(* Inputs of the file-stem check                                           *)
(***************************************************************************)
NameAlphabet == {"a", "B", ".", " ", "_"}

RECURSIVE SeqsUpTo(_, _)
SeqsUpTo(S, n) ==
    IF n = 0 THEN {<<>>}
    ELSE LET shorter == SeqsUpTo(S, n - 1)
         IN  shorter \cup {Append(s, x) : s \in shorter, x \in S}

StemNames   == SeqsUpTo(NameAlphabet, MaxNameLen)
StemTags    == {<<>>, <<"T", ".", "å">>}
StemParents == {<<>>, <<"p", " ", "Ø">>}

StemTimes == {<<>>, D2020, D2020Long, T1}

\* the first case of test_get_filestem
StemExample ==
    [dname |-> <<>>, oname |-> <<"n","a","m","e">>, tagname |-> <<"t","a","g">>,
     parent |-> <<"p","a","r","e","n","t">>, time0 |-> D2020, time1 |-> D2022,
     reverse |-> FALSE]

StemInputs ==
    [dname : {<<>>, <<"Æ", "N">>}, oname : StemNames, tagname : StemTags,
     parent : StemParents, time0 : StemTimes, time1 : StemTimes,
     reverse : BOOLEAN]
    \cup {StemExample}

Pending == [err |-> "pending", stem |-> <<>>, warn |-> FALSE]

InitStem ==
    /\ fin \in StemInputs
    /\ fout = Pending
    /\ Construct({NoKw}, {FALSE}, {TRUE}, {NON_FMU})

BuildStem ==
    /\ fout = Pending
    /\ fout' = get_filestem(fin.dname, fin.oname, fin.tagname, fin.parent,
                            fin.time0, fin.time1, fin.reverse)
    /\ UNCHANGED <<fin, self, env, dirs, fs, call, passed>>

NextStem == BuildStem

SpecStem == InitStem /\ [][NextStem]_vars

(***************************************************************************)
(* The life of one ExportData instance                                     *)
(***************************************************************************)
\* Spec: the exports of an instance, its configuration valid or not, in
\* every context, with the inputs that make a call raise.
CtxRequests ==
    {None, "realization", "REALIZATION", "case", "case_symlink_realization",
     "preprocessed", "non-fmu", "bogus"}

KwContext(c)  == [NoKw EXCEPT !.fmu_context = c]
KwName(n)     == [NoKw EXCEPT !.name = n]
KwContent(c)  == [NoKw EXCEPT !.content = c]
KwBad(k, b)   == [k EXCEPT !.bad = b]

ExportArgs ==
    {KwContext(c) :
        c \in {None, "case", "case_symlink_realization", "preprocessed"}}

ExportKwargs ==
    {NoKw, KwContext("bogus"),
     KwContent(ContentDict("seismic", "{valid}")),
     KwContent(ContentDict("seismic", "{unknown}")),
     KwContent(ContentStr("bogus")),
     [NoKw EXCEPT !.classification = "internal"],
     KwBad(NoKw, "config"), KwBad(NoKw, "invalid_first")}

ExportObjects ==
    {Surface, Unnamed, BadTimes, FileA, FileNoMark, FileMissing}

\* the calls: every object without keywords, one object with every keyword
ExportCalls ==
    {[obj |-> o, kw |-> NoKw] : o \in ExportObjects}
    \cup {[obj |-> Surface, kw |-> k] : k \in ExportKwargs}

Init ==
    /\ \/ Construct(ExportArgs, {FALSE}, BOOLEAN, {REALIZATION})
       \/ Construct({KwContext(None), KwContext("preprocessed")}, {FALSE},
                    BOOLEAN, {NON_FMU})
       \/ Construct({NoKw}, {TRUE}, {TRUE}, {REALIZATION})
    /\ fin = StemExample
    /\ fout = Pending

DoGenerate == \E c \in ExportCalls : GenerateMetadata(c.obj, TRUE, c.kw)

DoExport ==
    \E c \in ExportCalls, rs \in BOOLEAN : Export(c.obj, rs, c.kw)

Next == DoGenerate \/ DoExport

Spec == Init /\ [][Next]_vars

\* SpecCtx: the context of an instance under every requested context, the
\* run markers of the environment changing between the calls.
CtxArgs == {KwContext(c) : c \in CtxRequests} \cup {KwName(N1)}

CtxKwargs ==
    {NoKw} \cup {KwContext(c) : c \in CtxRequests}
    \cup {[KwContext(c) EXCEPT !.content = ContentStr("bogus")] :
             c \in {None, "case"}}

InitCtx ==
    /\ Construct(CtxArgs, {FALSE}, {TRUE}, EnvContexts)
    /\ fin = StemExample
    /\ fout = Pending

DoGenerateCtx == \E kw \in CtxKwargs : GenerateMetadata(Surface, FALSE, kw)

DoExportCtx == \E kw \in CtxKwargs : Export(Surface, FALSE, kw)

DoEnvChange == \E e \in EnvContexts : EnvChange(e)

NextCtx == DoGenerateCtx \/ DoExportCtx \/ DoEnvChange

SpecCtx == InitCtx /\ [][NextCtx]_vars

\* SpecSettings: the settings of an instance over a sequence of calls with
\* and without keywords, on objects in memory and on preprocessed files.
SettingsArgs == {NoKw, KwName(N1), [NoKw EXCEPT !.tagname = TG]}

SettingsKwargs ==
    {NoKw, KwName(N2), [NoKw EXCEPT !.tagname = TG],
     [NoKw EXCEPT !.subfolder = SF], KwContent(ContentStr("depth")),
     KwContext("preprocessed"),
     KwBad(KwName(N2), "config"), KwBad(KwName(N2), "invalid_first"),
     KwBad(KwName(N2), "invalid_last")}

InitSettings ==
    /\ Construct(SettingsArgs, {FALSE}, {TRUE}, {REALIZATION})
    /\ fin = StemExample
    /\ fout = Pending

DoGenerateSettings ==
    \E obj \in {Surface, FileA, FileB}, kw \in SettingsKwargs :
        GenerateMetadata(obj, FALSE, kw)

DoExportSettings ==
    \E obj \in {Surface, FileA, FileB}, kw \in SettingsKwargs :
        Export(obj, FALSE, kw)

NextSettings == DoGenerateSettings \/ DoExportSettings

SpecSettings == InitSettings /\ [][NextSettings]_vars

\* SpecContent: _check_content on every kind of content, alone and as the
\* content keyword of generate_metadata().
ContentNames ==
    AllowedContentFields \cup {"bogus", "", "unset"}

ContentPayloads == {"notdict", "{}", "{valid}", "{unknown}", "{missing}"}

ContentInputs ==
    {ContentNone, ContentOther}
    \cup {ContentStr(k) : k \in ContentNames}
    \cup {ContentDict(k, pl) : k \in ContentNames, pl \in ContentPayloads}

PendingContent ==
    [err |-> "pending", usecontent |-> "", content_specific |-> None]

InitContent ==
    /\ Construct({NoKw}, {FALSE}, {TRUE}, {REALIZATION})
    /\ fin \in ContentInputs
    /\ fout = PendingContent

CheckContent ==
    /\ fout = PendingContent
    /\ fout' = check_content(fin)
    /\ UNCHANGED <<fin, self, env, dirs, fs, call, passed>>

DoSetContent == GenerateMetadata(Surface, FALSE, KwContent(fin))

NextContent == CheckContent \/ DoSetContent

SpecContent == InitContent /\ [][NextContent]_vars

\* SpecPath: the destinations of one instance under every context, with and
\* without a forcefolder, a subfolder and the run identifiers, the folders
\* there already or not: _get_path(), get_metadata() and export() repeated.
AbsFolder == <<"/", "a", "b">>
RelFolder == <<"s", "e", "i", "s">>

PathSettings ==
    {[post_init(KwName(N1), FALSE, TRUE, REALIZATION).self EXCEPT
        !.fmu_context = c, !.forcefolder = ff, !.subfolder = sb,
        !.is_observation = ob, !.allow_forcefolder_absolute = al,
        !.createfolder = cf, !.verifyfolder = vf] :
      c \in FmuContext, ff \in {<<>>, RelFolder, AbsFolder},
      sb \in {<<>>, SF}, ob \in BOOLEAN, al \in BOOLEAN, cf \in BOOLEAN,
      vf \in BOOLEAN}

NoPath ==
    [n |-> 0, op |-> "none", err |-> "", dest |-> <<>>, linkdest |-> <<>>,
     forced |-> FALSE, file |-> NoFile]

\* the directories on disk at the start: the roots alone, or the destination
\* there already, or the destination and the realization's one
BaseDirs == { << <<"case">> >>, << <<"project">> >> }

InitPath ==
    /\ self \in PathSettings
    /\ env \in {REALIZATION, CASE_CONTEXT}
    /\ dirs \in {BaseDirs,
                 Mkdir(BaseDirs,
                       Destination(self, ProviderInputs(self, Surface, env),
                                   self.fmu_context)),
                 Mkdir(Mkdir(BaseDirs,
                             Destination(self,
                                         ProviderInputs(self, Surface, env),
                                         self.fmu_context)),
                       Destination(self, ProviderInputs(self, Surface, env),
                                   REALIZATION))}
    /\ fs = [data |-> {}, meta |-> {}, link |-> {}]
    /\ call = [n |-> 0, op |-> "init", obj |-> "", kw |-> KwName(N1),
               md5 |-> FALSE, err |-> "", stage |-> "done", warns |-> {},
               steps |-> <<>>, ret |-> <<>>, meta |-> NoFile, env |-> env]
    /\ passed = [last |-> MergePassed(Defaults, KwName(N1)), failed |-> FALSE]
    /\ fin = StemExample
    /\ fout = NoPath

\* the state after _get_path() returned p and, for get_metadata(), the file
\* block m was made of it
PathResolved(op, p, m) ==
    /\ fout' = [n |-> fout.n + 1, op |-> op, err |-> m.err, dest |-> p.dest,
                linkdest |-> p.linkdest, forced |-> p.forced,
                file |-> m.file]
    /\ dirs' = p.dirs
    /\ UNCHANGED <<self, env, fs, call, passed, fin>>

GetPath ==
    /\ fout.n + call.n < MaxCalls
    /\ PathResolved("get_path",
                    get_path(self, ProviderInputs(self, Surface, env), dirs),
                    [err |-> get_path(self, ProviderInputs(self, Surface, env),
                                      dirs).err,
                     file |-> NoFile])

GetMetadata ==
    /\ fout.n + call.n < MaxCalls
    /\ PathResolved("get_metadata",
                    get_path(self, ProviderInputs(self, Surface, env), dirs),
                    get_metadata(self, ProviderInputs(self, Surface, env),
                                 Surface, TRUE, dirs))

DoExportPath ==
    /\ fout.n + call.n < MaxCalls
    /\ \E rs \in BOOLEAN : Export(Surface, rs, NoKw)

NextPath == GetPath \/ GetMetadata \/ DoExportPath

SpecPath == InitPath /\ [][NextPath]_vars

\* SpecFile: the file block and the files of one instance in a realization
\* run, for a surface and a table, names and folders with and without
\* non-ASCII letters, an absolute forcefolder under and outside the root, both
\* sidecar formats: generate_metadata() and export() repeated, and the caller
\* changing the document generate_metadata() returned.
UnderRoot == <<"/", "case", "/", "x">>
NameTilde == <<"n", "õ">>
NameAsh   == <<"n", "æ">>
SubSlash  == <<"s", "ø">>
Mutated   == << <<"mutated">> >>

FileObjects == {Surface, Table}

FileSettings ==
    {[post_init(KwName(nm), FALSE, TRUE, REALIZATION).self EXCEPT
        !.fmu_context = c, !.forcefolder = ff, !.subfolder = sb,
        !.allow_forcefolder_absolute = TRUE, !.meta_format = mf,
        !.table_include_index = ti] :
      nm \in {N1, NameTilde, NameAsh},
      c \in {REALIZATION, CASE_SYMLINK_REALIZATION},
      ff \in {<<>>, AbsFolder, UnderRoot}, sb \in {<<>>, SubSlash},
      mf \in {"yaml", "json"}, ti \in {"False", "True"}}

\* the document the caller holds; shared: it is the very object the instance
\* keeps as its metadata; at: the calls made when the caller changed it
NoDocument == [doc |-> NoFile, shared |-> FALSE, at |-> 0]

\* "return self._metadata", mutated: the stored document itself is returned
ReturnedAsIs(doc) == [doc |-> doc, shared |-> TRUE, at |-> 0]

\* generate_metadata: "return deepcopy(self._metadata)"
deepcopy(doc) == [doc |-> doc, shared |-> FALSE, at |-> 0]

InitFile ==
    /\ self \in FileSettings
    /\ env = REALIZATION
    /\ dirs = BaseDirs
    /\ fs = [data |-> {}, meta |-> {}, link |-> {}]
    /\ call = [n |-> 0, op |-> "init", obj |-> "", kw |-> KwName(self.name),
               md5 |-> FALSE, err |-> "", stage |-> "done", warns |-> {},
               steps |-> <<>>, ret |-> <<>>, meta |-> NoFile, env |-> env]
    /\ passed = [last |-> MergePassed(Defaults, KwName(self.name)),
                 failed |-> FALSE]
    /\ fin = StemExample
    /\ fout = NoDocument

\* generate_metadata(): the caller keeps what was returned; a call that
\* raises returns nothing and leaves the instance's document in place
GenerateFile(r, obj, want_md5) ==
    /\ GeneratedCall(r, obj, want_md5, NoKw)
    /\ fout' = IF r.err = "" THEN deepcopy(r.meta) ELSE fout
    /\ UNCHANGED <<env, fin>>

DoGenerateFile ==
    /\ call.n < MaxCalls
    /\ \E obj \in FileObjects, want_md5 \in BOOLEAN :
          GenerateFile(generate_metadata(self, obj, want_md5, NoKw, env, dirs),
                       obj, want_md5)

\* export(): a path is returned; the instance's document is a new one
\* unless generate_metadata raised
ExportFile(r, obj) ==
    /\ ExportedCall(r, obj, NoKw)
    /\ fout' = IF r.err = "" THEN [fout EXCEPT !.shared = FALSE] ELSE fout
    /\ UNCHANGED <<env, fin>>

DoExportFile ==
    /\ call.n < MaxCalls
    /\ \E obj \in FileObjects, rs \in BOOLEAN :
          ExportFile(export(self, obj, rs, NoKw, env, dirs, fs), obj)

\* the caller changes the document it holds
Mutate ==
    /\ fout.doc # NoFile
    /\ fout.doc.relative_path # Mutated
    /\ fout' = [fout EXCEPT !.doc.relative_path = Mutated, !.at = call.n]
    /\ self' = IF fout.shared
               THEN [self EXCEPT !.metadata.relative_path = Mutated]
               ELSE self
    /\ UNCHANGED <<env, dirs, fs, call, passed, fin>>

NextFile == DoGenerateFile \/ DoExportFile \/ Mutate

SpecFile == InitFile /\ [][NextFile]_vars

\* SpecRace: two processes, each with an instance of its own, resolve their
\* destinations at the same time on one disk, creation and verification
\* enabled.  A step is one system call: dest.mkdir(parents=True,
\* exist_ok=True) tries os.mkdir(dest); on FileNotFoundError it makes the
\* parent the same way and tries os.mkdir(dest) once more; on FileExistsError
\* it goes on if exist_ok.  Then dest.exists() is tested.
Procs == {"p1", "p2"}

RaceSettings ==
    {[post_init(KwName(N1), FALSE, TRUE, REALIZATION).self EXCEPT
        !.fmu_context = c, !.subfolder = sb] :
      c \in {REALIZATION, CASE_SYMLINK_REALIZATION}, sb \in {<<>>, SF}}

\* _get_path: the destinations an instance resolves, in order
RaceDestinations(s) ==
    <<Destination(s, ProviderInputs(s, Surface, REALIZATION), s.fmu_context)>>
    \o (IF s.fmu_context = CASE_SYMLINK_REALIZATION
        THEN <<Destination(s, ProviderInputs(s, Surface, REALIZATION),
                           REALIZATION)>>
        ELSE <<>>)

\* one call of mkdir in progress: the first k parts of the destination, and
\* whether it is the second try (parents=False) after the parent was made
MkdirFrame(k, second) == [k |-> k, second |-> second]

\* a process about to resolve the destinations todo
Resolving(todo) ==
    IF todo = <<>>
    THEN [todo |-> <<>>, stack |-> <<>>, status |-> "done", err |-> ""]
    ELSE [todo |-> todo, stack |-> <<MkdirFrame(Len(Head(todo)), FALSE)>>,
          status |-> "mkdir", err |-> ""]

\* os.mkdir and its handling in Path.mkdir, mutated: exist_ok=False
MkdirOutcomeNoExistOk(exists, parent_exists, second) ==
    IF exists THEN "FileExistsError"
    ELSE IF ~parent_exists THEN (IF second THEN "FileNotFoundError"
                                 ELSE "parents")
    ELSE "created"

\* os.mkdir and its handling in Path.mkdir(parents=True, exist_ok=True): the
\* directory is created, or is there already, or its parent is made first,
\* or (second try, parent gone) FileNotFoundError is raised
MkdirOutcome(exists, parent_exists, second) ==
    IF exists THEN "exists"
    ELSE IF ~parent_exists THEN (IF second THEN "FileNotFoundError"
                                 ELSE "parents")
    ELSE "created"

InitRace ==
    /\ fin \in [Procs -> RaceSettings]
    /\ fout = [p \in Procs |-> Resolving(RaceDestinations(fin[p]))]
    /\ self = fin["p1"]
    /\ env = REALIZATION
    /\ dirs = BaseDirs
    /\ fs = [data |-> {}, meta |-> {}, link |-> {}]
    /\ call = [n |-> 0, op |-> "init", obj |-> "", kw |-> KwName(N1),
               md5 |-> FALSE, err |-> "", stage |-> "done", warns |-> {},
               steps |-> <<>>, ret |-> <<>>, meta |-> NoFile, env |-> env]
    /\ passed = [last |-> MergePassed(Defaults, KwName(N1)), failed |-> FALSE]

\* the process after the system call of its innermost mkdir came out as o
AfterMkdir(r, o) ==
    IF o \in {"created", "exists"}
    THEN [r EXCEPT !.stack = SubSeq(@, 1, Len(@) - 1),
                   !.status = IF Len(r.stack) = 1 THEN "verify" ELSE "mkdir"]
    ELSE IF o = "parents"
    THEN [r EXCEPT !.stack =
            SubSeq(@, 1, Len(@) - 1)
            \o <<MkdirFrame(r.stack[Len(r.stack)].k, TRUE),
                 MkdirFrame(r.stack[Len(r.stack)].k - 1, FALSE)>>]
    ELSE [r EXCEPT !.status = "failed", !.err = o, !.stack = <<>>]

\* one os.mkdir of process p
MkdirStep(p) ==
    /\ fout[p].status = "mkdir"
    /\ LET r    == fout[p]
           k    == r.stack[Len(r.stack)].k
           path == SubSeq(Head(r.todo), 1, k)
           o    == MkdirOutcome(path \in dirs,
                                k = 1 \/ SubSeq(path, 1, k - 1) \in dirs,
                                r.stack[Len(r.stack)].second)
       IN  /\ fout' = [fout EXCEPT ![p] = AfterMkdir(r, o)]
           /\ dirs' = IF o = "created" THEN dirs \cup {path} ELSE dirs
    /\ UNCHANGED <<self, env, fs, call, passed, fin>>

\* "if self.dataio.verifyfolder and not dest.exists()", then the next
\* destination or the return
VerifyStep(p) ==
    /\ fout[p].status = "verify"
    /\ fout' = [fout EXCEPT ![p] =
                 IF Head(fout[p].todo) \in dirs
                 THEN Resolving(Tail(fout[p].todo))
                 ELSE [fout[p] EXCEPT !.status = "failed",
                                      !.err = "OSError: Folder is not present"]]
    /\ UNCHANGED <<self, env, dirs, fs, call, passed, fin>>

NextRace == \E p \in Procs : MkdirStep(p) \/ VerifyStep(p)

\* every process that can take a step eventually takes one
SpecRace ==
    /\ InitRace
    /\ [][NextRace]_vars
    /\ \A p \in Procs : WF_vars(MkdirStep(p) \/ VerifyStep(p))

(***************************************************************************)
(* The resolved context (C1, C4, C5), checked under SpecCtx                *)
(***************************************************************************)
\* the step is a call of generate_metadata() or export()
IsCall == call'.n = call.n + 1

\* the settings update of the call ran to its end
UpdateCompleted == call'.err = "" \/ call'.stage # "settings"

\* the reference: the requested context normalised to the enum, or the
\* context the environment implies when none was requested
RefBase(requested, implied) ==
    CASE requested = None -> implied
      [] requested \in {"realization", "REALIZATION", REALIZATION}
           -> REALIZATION
      [] requested \in {"case", CASE_CONTEXT} -> CASE_CONTEXT
      [] requested \in {"case_symlink_realization", CASE_SYMLINK_REALIZATION}
           -> CASE_SYMLINK_REALIZATION
      [] requested \in {"preprocessed", PREPROCESSED} -> PREPROCESSED
      [] requested \in {"non-fmu", NON_FMU} -> NON_FMU
      [] OTHER -> "no member"

RefContext(requested, implied, pipeline) ==
    IF ~pipeline /\ RefBase(requested, implied) # PREPROCESSED
    THEN NON_FMU
    ELSE RefBase(requested, implied)

RunContexts == {REALIZATION, CASE_CONTEXT, CASE_SYMLINK_REALIZATION}

\* the fmu_context in force for the update of the call: the keyword, or
\* the setting the instance holds
RequestedNow ==
    IF call'.kw.fmu_context # Unset THEN call'.kw.fmu_context
    ELSE self.fmu_context

RequestedAtInit ==
    IF call.kw.fmu_context # Unset THEN call.kw.fmu_context ELSE None

C1_AfterConstruction ==
    call.op = "init" =>
        self.fmu_context = RefContext(RequestedAtInit, call.env, self.fmurun)

C1_AfterUpdate ==
    (IsCall /\ UpdateCompleted) =>
        /\ self'.fmu_context = RefContext(RequestedNow, env, self.fmurun)
        /\ (~self.fmurun /\ RefBase(RequestedNow, env) \in RunContexts)
               => self'.fmu_context = NON_FMU
        /\ RefBase(RequestedNow, env) = PREPROCESSED
               => self'.fmu_context = PREPROCESSED

C4_FreshOnEveryCall ==
    [][(IsCall /\ UpdateCompleted /\ ~passed.failed) =>
           self'.fmu_context =
               RefContext(passed'.last.fmu_context, env, env # NON_FMU)]_vars

\* C5: in every state an instance can be observed in (constructed, or its
\* last settings update completed) exactly one FmuContext member is
\* active, and it is NON_FMU only when the run was detected as a
\* non-pipeline run.
C5_NonFmuOnlyByOverride ==
    (call.err = "" \/ call.stage # "settings") =>
        /\ self.fmu_context \in FmuContext
        /\ self.fmu_context = NON_FMU => ~self.fmurun

(***************************************************************************)
(* The settings over a sequence of calls (C3, C9), checked under           *)
(* SpecSettings                                                            *)
(***************************************************************************)
SettingNames == {"name", "tagname", "subfolder", "content"}

\* C3: the value of a setting used by a call is the value passed to that
\* call, otherwise the value most recently passed to an earlier call,
\* otherwise the constructor's.  Stated for the calls on in-memory objects
\* of an instance none of whose calls raised.
C3_SettingsPrecedence ==
    [][(IsCall /\ call'.err = "" /\ ~passed'.failed
        /\ ObjectOf(call'.obj).kind = "mem") =>
           \A f \in SettingNames : self'[f] = passed'.last[f]]_vars

\* C9: on a file path, each of name, tagname and subfolder not set on the
\* current call is adopted from the file's _preprocessed block, whatever
\* earlier calls adopted; a file without the block is rejected.  Stated for
\* the settings no caller has given a value.
C9_AdoptedFromPreprocessed ==
    [][(IsCall /\ call'.stage \notin {"settings", "access"}
        /\ ObjectOf(call'.obj).kind = "path" /\ ObjectOf(call'.obj).exists) =>
           LET obj == ObjectOf(call'.obj) IN
           IF ~obj.marker
           THEN call'.err =
                  "ValidationError: <_preprocessed> is missing in the metadata"
           ELSE /\ (call'.kw.name = UnsetS /\ passed.last.name = <<>>)
                       => self'.name = obj.pname
                /\ (call'.kw.tagname = UnsetS /\ passed.last.tagname = <<>>)
                       => self'.tagname = obj.ptag
                /\ (call'.kw.subfolder = UnsetS /\ passed.last.subfolder = <<>>)
                       => self'.subfolder = obj.psub]_vars

(***************************************************************************)
(* export() (C2, C6, C7, C8), checked under Spec                           *)
(***************************************************************************)
ExportedNow == call.op = "export" /\ call.err = ""

NoMetadataWarning == "exported without metadata"

C6_ChecksumOfWrittenFile ==
    /\ ExportedNow =>
         LET outfile == self.metadata.absolute_path
             written == Md5(Lookup(fs.data, outfile))
         IN  /\ call.meta.checksum_md5 = <<>>
             /\ Len(call.steps) >= 3
             /\ SubSeq(call.steps, 1, 3) =
                    <<"generate_metadata", "export_file", "checksum">>
             /\ \A i \in 1..Len(call.steps) :
                    call.steps[i] = "export_metadata_file" => i = 4
             /\ Has(fs.data, outfile)
             /\ self.metadata.checksum_md5 = written
             /\ self.config_is_valid =>
                  /\ Len(call.steps) >= 4
                  /\ call.steps[4] = "export_metadata_file"
                  /\ Has(fs.meta, SidecarOf(outfile))
                  /\ Lookup(fs.meta, SidecarOf(outfile)).checksum_md5 = written
    /\ \A r \in fs.meta :
         /\ r.body.relative_path # <<>>
         /\ \E d \in fs.data :
              /\ SidecarOf(d.path) = r.path
              /\ r.body.checksum_md5 = Md5(d.body)

\* a valid configuration has exported: the sidecar is on disk
C6_Witness ==
    /\ ExportedNow
    /\ self.config_is_valid
    /\ Has(fs.meta, SidecarOf(self.metadata.absolute_path))

\* what export() raises for the causes C7 lists
ValidationCauses ==
    {"ValidationError: content requires additional input",
     "ValueError: Content is incorrectly formatted",
     "ValidationError: The 'content' must be string or dict",
     "ValidationError: Invalid content",
     ContentFieldError,
     "ValueError: not a valid FmuContext",
     "ValueError: Cannot have 'config' outside instance initialization",
     "ValidationError: The input key is not supported",
     "ValueError: Conflicting arguments",
     "ValidationError: The file does not exist",
     "ValidationError: <_preprocessed> is missing in the metadata",
     "ValueError: The 'name' entry is missing",
     "ValueError: 'time0' is missing while 'time1' is present"}

\* C7: an export() call that raises for one of the validation causes has
\* written no data file, no sidecar and no symlink.
C7_FatalErrorsWriteNothing ==
    [][(IsCall /\ call'.op = "export" /\ call'.err \in ValidationCauses) =>
           fs' = fs]_vars

\* an export() raised for a missing name, after an export that wrote files
C7_Witness ==
    /\ call.op = "export"
    /\ call.err = "ValueError: The 'name' entry is missing"
    /\ fs.data # {}
    /\ fs.meta # {}

UnknownFields == ContentDict("seismic", "{unknown}")

\* C8: an export() call given a content whose payload has unknown fields
\* raises the validation error, and the data is still exported, without a
\* sidecar.  Stated for the first call on an instance, the disk empty.
C8_ExportedWithoutMetadata ==
    (call.op = "export" /\ call.n = 1 /\ call.kw.content = UnknownFields) =>
        /\ call.err = ContentFieldError
        /\ fs.data # {}
        /\ fs.meta = {}

(***************************************************************************)
(* C10: the file stem's composition                                        *)
(***************************************************************************)
\* The stem as the documentation words it, written without the code's operators for
\* the normalisation: '.' and ' ' become '_', a run of '_' becomes one '_',
\* the three diacritics are transliterated.
RECURSIVE RefSquash(_)
RefSquash(s) ==
    IF s = <<>> THEN <<>>
    ELSE LET c == IF Head(s) \in {".", " "} THEN "_" ELSE Head(s)
             r == RefSquash(Tail(s))
         IN  IF c = "_" /\ r # <<>> /\ Head(r) = "_" THEN r ELSE <<c>> \o r

RECURSIVE RefTranslit(_)
RefTranslit(s) ==
    IF s = <<>> THEN <<>>
    ELSE (CASE Head(s) = "æ" -> <<"a", "e">>
            [] Head(s) = "ø" -> <<"o", "e">>
            [] Head(s) = "å" -> <<"a", "a">>
            [] OTHER -> <<Head(s)>>) \o RefTranslit(Tail(s))

RefNormalise(s) == RefTranslit(RefSquash(s))

RECURSIVE RefNoHyphen(_)
RefNoHyphen(s) ==
    IF s = <<>> THEN <<>>
    ELSE IF Head(s) = "-" THEN RefNoHyphen(Tail(s))
    ELSE <<Head(s)>> \o RefNoHyphen(Tail(s))

RefDate(t) == RefNoHyphen([i \in 1..(IF Len(t) < 10 THEN Len(t) ELSE 10) |-> t[i]])

RefStem(i) ==
    LET name    == IF i.dname # <<>> THEN i.dname ELSE i.oname
        pre     == IF i.parent # <<>> THEN i.parent \o <<"-", "-">> ELSE <<>>
        tag     == IF i.tagname # <<>> THEN <<"-", "-">> \o i.tagname ELSE <<>>
        monitor == IF i.reverse THEN i.time0 ELSE i.time1
        base    == IF i.reverse THEN i.time1 ELSE i.time0
        time    == IF i.time0 # <<>> /\ i.time1 = <<>>
                   THEN <<"-", "-">> \o RefDate(i.time0)
                   ELSE IF i.time0 # <<>> /\ i.time1 # <<>>
                   THEN <<"-", "-">> \o RefDate(monitor) \o <<"_">> \o RefDate(base)
                   ELSE <<>>
    IN  RefNormalise(PyLower(pre \o name \o tag \o time))

StemAccepted(i) ==
    /\ (i.dname # <<>> \/ i.oname # <<>>)
    /\ ~(i.time0 = <<>> /\ i.time1 # <<>>)

NoName(i) == Falsy(i.dname) /\ Falsy(i.oname)

Time1Alone(i) == Falsy(i.time0) /\ ~Falsy(i.time1)

\* _get_filestem raised, its message naming the setting w; no stem returned
StemRefused(w) ==
    /\ fout.err # ""
    /\ w \in ErrorMentions(fout.err)
    /\ fout.stem = <<>>

\* C11 as stated: building a stem fails with an error mentioning 'name'
\* whenever the settings name and the object's name are both empty, and with
\* an error mentioning 'time1' whenever time1 is present while time0 is
\* missing; no stem is returned, whatever tagname and parent are.
C11_StemFailures ==
    fout # Pending =>
        /\ NoName(fin) => StemRefused("name")
        /\ Time1Alone(fin) => StemRefused("time1")

\* C11, amended: the error mentions 'name' whenever both names are empty;
\* it mentions 'time1' whenever time1 is present while time0 is missing and
\* a name is there (the name is tested first); no stem is returned in
\* either case, whatever tagname and parent are.
C11_StemFailuresNameFirst ==
    fout # Pending =>
        /\ NoName(fin) => StemRefused("name")
        /\ (Time1Alone(fin) /\ ~NoName(fin)) => StemRefused("time1")
        /\ (NoName(fin) \/ Time1Alone(fin)) => fout.err # ""

\* time1 without time0, the name, the tag and the parent given: refused
C11_Witness ==
    /\ fout # Pending
    /\ Time1Alone(fin) /\ ~NoName(fin)
    /\ fin.tagname # <<>> /\ fin.parent # <<>>
    /\ StemRefused("time1")

UpperCase == {"A", "B", "N", "T", "Æ", "Ø", "Å"}

Diacritics == {"æ", "ø", "å", "Æ", "Ø", "Å"}

PathFp == ProviderInputs(self, Surface, env)

AbsoluteForced == self.forcefolder # <<>> /\ Head(self.forcefolder) = "/"

RelativeForced == self.forcefolder # <<>> /\ Head(self.forcefolder) # "/"

\* a destination was resolved and returned
Resolved == fout.n > 0 /\ fout.err = ""

\* the primary destination as documented, of the context ctx and the
\* type-category folder folder
RefPrimary(ctx, observation, folder) ==
    PathFp.rootpath
    \o (IF ctx = REALIZATION /\ PathFp.realname # <<>>
        THEN <<PathFp.realname>> ELSE <<>>)
    \o (IF ctx = REALIZATION /\ PathFp.itername # <<>>
        THEN <<PathFp.itername>> ELSE <<>>)
    \o << <<"share">> >>
    \o (CASE ctx = PREPROCESSED -> << <<"preprocessed">> >>
          [] ctx # PREPROCESSED /\ observation -> << <<"observations">> >>
          [] OTHER -> << <<"results">> >>)
    \o <<folder>>
    \o (IF self.subfolder # <<>> THEN <<self.subfolder>> ELSE <<>>)

RunIdentifiers == {<<"realization-0">>, <<"iter-0">>}

RefForced ==
    << [k \in 1..(Len(self.forcefolder) - 1) |-> self.forcefolder[k + 1]] >>
    \o (IF self.subfolder # <<>> THEN <<self.subfolder>> ELSE <<>>)

\* the contexts that take an absolute forcefolder
TakesAbsolute ==
    self.fmu_context \notin {PREPROCESSED, CASE_SYMLINK_REALIZATION}

\* C14: while allow_forcefolder_absolute is false every resolution with a
\* forcefolder starting with '/' fails, in every context, and no destination
\* outside the root is returned; when it is true and the context takes it,
\* the destination is the given absolute path, followed by the subfolder if
\* set, whatever the context, the run identifiers, is_observation and the
\* type-category folder are, and the provider is marked forced-absolute (a
\* resolution that does not return fails on the folder's verification).
C14_AbsoluteForcefolder ==
    fout.n > 0 =>
        /\ (~self.allow_forcefolder_absolute /\ AbsoluteForced) =>
               /\ fout.err # ""
               /\ fout.file = NoFile
        /\ (~self.allow_forcefolder_absolute /\ fout.err = "") =>
               /\ IsPrefix(PathFp.rootpath, fout.dest)
               /\ ~fout.forced
        /\ (self.allow_forcefolder_absolute /\ AbsoluteForced
            /\ TakesAbsolute) =>
               \/ /\ fout.err = ""
                  /\ fout.dest = RefForced
                  /\ fout.forced
               \/ /\ fout.err = "OSError: Folder is not present"
                  /\ self.verifyfolder /\ ~self.createfolder
                  /\ RefForced \notin dirs

\* an absolute forcefolder, allowed, resolved under REALIZATION for an
\* observation with a subfolder
C14_Witness ==
    /\ Resolved
    /\ self.allow_forcefolder_absolute /\ AbsoluteForced
    /\ self.fmu_context = REALIZATION
    /\ self.is_observation /\ self.subfolder # <<>>
    /\ PathFp.realname # <<>>
    /\ fout.forced

\* C15: an absolute forcefolder is never accepted under PREPROCESSED or
\* CASE_SYMLINK_REALIZATION, allow_forcefolder_absolute set or not: the
\* resolution fails, no file block is made, and export() raises and writes
\* nothing.
C15_AbsoluteNeverInTheseContexts ==
    (AbsoluteForced /\ ~TakesAbsolute) =>
        /\ fout.n > 0 =>
               /\ fout.err # ""
               /\ fout.file = NoFile
        /\ call.op = "export" =>
               /\ call.err # ""
               /\ call.meta = NoFile
               /\ fs = [data |-> {}, meta |-> {}, link |-> {}]

\* get_metadata() refused an allowed absolute forcefolder under
\* CASE_SYMLINK_REALIZATION
C15_Witness ==
    /\ fout.n > 0 /\ fout.op = "get_metadata"
    /\ AbsoluteForced /\ self.allow_forcefolder_absolute
    /\ self.fmu_context = CASE_SYMLINK_REALIZATION
    /\ fout.err = "RuntimeError: You cannot use forcefolder in combination with fmucontext"

\* C16: a relative forcefolder is a relative override: the destination keeps
\* the prefix the context gives (root, run identifiers, share and
\* results / observations / preprocessed) and holds the forcefolder in the
\* place of the type-category folder.
C16_RelativeForcefolder ==
    (Resolved /\ RelativeForced) =>
        /\ fout.dest = RefPrimary(self.fmu_context, self.is_observation,
                                  self.forcefolder)
        /\ \A k \in DOMAIN fout.dest : fout.dest[k] # Surface.efolder
        /\ ~fout.forced

\* a relative forcefolder resolved under PREPROCESSED with a subfolder
C16_Witness ==
    /\ Resolved
    /\ RelativeForced
    /\ self.fmu_context = PREPROCESSED
    /\ self.subfolder # <<>>
    /\ self.forcefolder \in {fout.dest[k] : k \in DOMAIN fout.dest}

SymlinkContext == self.fmu_context = CASE_SYMLINK_REALIZATION

\* the secondary destination as documented: the primary one of REALIZATION
RefSecondary ==
    RefPrimary(REALIZATION, self.is_observation, PathFp.efolder)

\* C17: there is a secondary (symlink) destination exactly under
\* CASE_SYMLINK_REALIZATION: the file block carries relative_path_symlink
\* and absolute_path_symlink exactly then, the secondary directory is the
\* primary directory REALIZATION gives for the same settings, and export()
\* makes the symlinks of the object and of its sidecar there, and no symlink
\* in any other context.
C17_SecondaryDestination ==
    /\ Resolved =>
         /\ fout.linkdest # <<>> <=> SymlinkContext
         /\ SymlinkContext => fout.linkdest = RefSecondary
         /\ fout.op = "get_metadata" =>
              /\ fout.file.relative_path_symlink # <<>> <=> SymlinkContext
              /\ fout.file.absolute_path_symlink # <<>> <=> SymlinkContext
              /\ SymlinkContext =>
                   Parent(fout.file.absolute_path_symlink) = RefSecondary
    /\ ExportedNow =>
         LET outfile == self.metadata.absolute_path IN
         /\ self.metadata.absolute_path_symlink # <<>> <=> SymlinkContext
         /\ self.metadata.relative_path_symlink # <<>> <=> SymlinkContext
         /\ ~SymlinkContext => fs.link = {}
         /\ SymlinkContext =>
              fs.link =
                {[path |-> Append(RefSecondary, BaseName(outfile)),
                  body |-> outfile],
                 [path |-> Append(RefSecondary, BaseName(SidecarOf(outfile))),
                  body |-> SidecarOf(outfile)]}

\* an observation exported under CASE_SYMLINK_REALIZATION, the run
\* identifiers known, with a subfolder: the two symlinks are there
C17_Witness ==
    /\ ExportedNow
    /\ SymlinkContext
    /\ self.is_observation /\ self.subfolder # <<>>
    /\ PathFp.realname # <<>>
    /\ Cardinality(fs.link) = 2

\* the step is a resolution of the destination
IsResolution == fout'.n = fout.n + 1

\* C18: resolving the destination again with the same settings, after a
\* resolution that returned, returns the same paths, does not fail and
\* leaves the directories as they are; a first resolution that finds its
\* directory there already returns it and leaves the directories as they
\* are.
C18_ResolutionIdempotent ==
    [][IsResolution =>
         /\ Resolved =>
              /\ fout'.err = ""
              /\ fout'.dest = fout.dest
              /\ fout'.linkdest = fout.linkdest
              /\ dirs' = dirs
         /\ (fout.n = 0 /\ ~AbsoluteForced /\ ~SymlinkContext
             /\ RefPrimary(self.fmu_context, self.is_observation,
                           PathFp.efolder) \in dirs) =>
              /\ fout'.err = ""
              /\ fout'.dest \in dirs
              /\ dirs' = dirs]_vars

\* a second resolution returned, the folders made by the first one
C18_Witness ==
    /\ fout.n >= 2
    /\ fout.err = ""
    /\ self.createfolder
    /\ fout.dest \in dirs
    /\ fout.dest \notin BaseDirs
    /\ SymlinkContext

(***************************************************************************)
(* Content validation (C19, C20), checked under SpecContent                *)
(***************************************************************************)
\* _check_content raised: no (name, payload) pair was returned
ContentRejected == fout.err \notin {"", "pending"}

\* C19: content validation rejects with a fatal error, returning no
\* (name, payload) pair, every content that is neither None, a string nor a
\* mapping, every content whose name (the string, or the key of the mapping)
\* is not in the taxonomy, and every bare string whose name requires a
\* structured payload.
C19_ContentRejected ==
    fout # PendingContent =>
        /\ fin.type = "other" => ContentRejected
        /\ (fin.type \in {"str", "dict"}
            /\ fin.key \notin AllowedContentFields) => ContentRejected
        /\ (fin.type = "str" /\ requires_additional_input(fin.key)) =>
               ContentRejected

\* C20: of a single-key mapping {name: value} the key is the name; a value
\* that is no mapping is rejected as incorrectly formatted; every mapping
\* value, the empty one included, is validated against the sub-schema of
\* the name: the payload returned conforms to it and a payload that violates
\* it is never accepted.  None and a bare string carry no payload.
C20_PayloadValidated ==
    fout # PendingContent =>
        /\ fin.type = "dict" =>
             /\ fout.err = "" => fout.usecontent = fin.key
             /\ fin.payload = "notdict" =>
                  fout.err = "ValueError: Content is incorrectly formatted"
             /\ fout.err = "" => Conforms(fin.key, fout.content_specific)
             /\ ~Conforms(fin.key, fin.payload) => ContentRejected
        /\ (fin.type \in {"none", "str"} /\ fout.err = "") =>
             fout.content_specific = None

(***************************************************************************)
(* The sidecar, the returned document, the file block and the checksums    *)
(* (C21 to C24, C27, C28), checked under SpecFile                          *)
(***************************************************************************)
\* the data file of the last export and its symlink, as its metadata names them
OutFile    == self.metadata.absolute_path
OutSymlink == self.metadata.absolute_path_symlink

\* the sidecar name as documented: a dot, the data file's name, the suffix
\* of the format
RefSidecarName(file, format) ==
    <<".">> \o BaseName(file)
    \o (IF format = "json" THEN <<".json">> ELSE <<".yml">>)

\* C21: after an export that wrote its sidecar, the sidecar is beside the
\* data file, named "." + data file name + ".yml", or ".json" under
\* meta_format = "json"; and the sidecar symlink in the secondary destination
\* carries the same name and points to that sidecar.
C21_SidecarNaming ==
    (ExportedNow /\ self.config_is_valid) =>
        /\ Has(fs.meta,
               Append(Parent(OutFile),
                      RefSidecarName(OutFile, self.meta_format)))
        /\ (OutSymlink # <<>> =>
              /\ Has(fs.link,
                     Append(Parent(OutSymlink),
                            RefSidecarName(OutFile, self.meta_format)))
              /\ Lookup(fs.link,
                        Append(Parent(OutSymlink),
                               RefSidecarName(OutFile, self.meta_format)))
                 = Append(Parent(OutFile),
                          RefSidecarName(OutFile, self.meta_format)))

\* the step is the caller changing the document it was handed
IsMutation == fout'.doc # fout.doc /\ call' = call

\* C22: the document generate_metadata() returns is a copy.  The caller
\* changing it changes nothing of the instance, its stored metadata included,
\* nor the disk; and the caller's change shows neither in the stored
\* metadata, nor in the document any call generated, nor in any sidecar.
C22_DefensiveCopy ==
    /\ [](/\ self.metadata.relative_path # Mutated
          /\ call.meta.relative_path # Mutated
          /\ \A f \in fs.meta : f.body.relative_path # Mutated)
    /\ [][IsMutation => (self' = self /\ fs' = fs /\ dirs' = dirs)]_vars

\* the caller changed the document it held, and a later export() wrote its
\* sidecar
C22_Witness ==
    /\ fout.doc.relative_path = Mutated
    /\ fout.at < call.n
    /\ ExportedNow
    /\ fs.meta # {}

\* the step is a call of generate_metadata()
IsGenerate == call'.n = call.n + 1 /\ call'.op = "generate_metadata"

\* the directories a resolution of the instance's destinations may make
DestinationFolders(s, e) ==
    Mkdir(Mkdir({}, Destination(s, ProviderInputs(s, Surface, e),
                                s.fmu_context)),
          Destination(s, ProviderInputs(s, Surface, e), REALIZATION))
    \cup Mkdir(Mkdir({}, Destination(s, ProviderInputs(s, Table, e),
                                     s.fmu_context)),
               Destination(s, ProviderInputs(s, Table, e), REALIZATION))

\* C23: a call of generate_metadata(), with or without a checksum, leaves
\* every file on disk as it was (no data file, sidecar or symlink written,
\* changed or removed, no temporary file left) and at most adds destination
\* directories; an export() that returns has written the data file at the
\* path it reports.
C23_GenerateWritesNothing ==
    /\ [][IsGenerate =>
            /\ fs' = fs
            /\ dirs \subseteq dirs'
            /\ (dirs' \ dirs) \subseteq DestinationFolders(self', env)]_vars
    /\ [](ExportedNow =>
            /\ Has(fs.data, OutFile)
            /\ Lookup(fs.data, OutFile).data = call.obj)

\* generate_metadata() computed a checksum where an earlier export() had put
\* the data file and its sidecar
C23_Witness ==
    /\ call.op = "generate_metadata"
    /\ call.md5
    /\ call.err = ""
    /\ Has(fs.data, self.metadata.absolute_path)
    /\ Has(fs.meta, SidecarOf(self.metadata.absolute_path))

\* the last call was generate_metadata() or export(), of the object CalledObj
IsFileCall == call.op \in {"generate_metadata", "export"}
CalledObj  == ObjectOf(call.obj)

\* the path of the data file as documented: the destination directory, then
\* the stem in lower case with the extension
RefDataPath(fp, dest) ==
    Append(dest,
           PyLower(get_filestem(self.name, fp.oname, self.tagname, self.parent,
                                fp.time0, fp.time1,
                                self.filename_timedata_reverse).stem)
           \o fp.extension)

\* some character of some part of the path is outside ASCII
HasNonAscii(path) ==
    \E i \in 1..Len(path) : \E j \in 1..Len(path[i]) :
        path[i][j] \in {"õ", "æ", "ø", "å", "Æ", "Ø", "Å"}

\* the provider's inputs of a run whose iteration folder has a non-ASCII name
OddIteration == [ProviderInputs(self, Surface, env) EXCEPT
                   !.itername = <<"iter-", "ø">>]

\* C24: whenever the destinations resolve and the path derived for the data
\* file holds a non-ASCII character, making the file block fails with the
\* encoding error and no file block is returned; so for the primary path
\* (the calls made) and for the symlink path (a run whose iteration folder is
\* non-ASCII, the primary path being at case level).
C24_NonAsciiPath ==
    /\ (/\ IsFileCall
        /\ get_path(self, ProviderInputs(self, CalledObj, env), dirs).err = ""
        /\ HasNonAscii(
              RefDataPath(ProviderInputs(self, CalledObj, env),
                          Destination(self,
                                      ProviderInputs(self, CalledObj, env),
                                      self.fmu_context))))
       => (call.err = "UnicodeEncodeError" /\ call.meta = NoFile)
    /\ (/\ self.fmu_context = CASE_SYMLINK_REALIZATION
        /\ get_path(self, OddIteration, dirs).err = ""
        /\ HasNonAscii(
              RefDataPath(OddIteration,
                          Destination(self, OddIteration, REALIZATION))))
       => (/\ get_metadata(self, OddIteration, Surface, FALSE, dirs).err
                = "UnicodeEncodeError"
           /\ get_metadata(self, OddIteration, Surface, FALSE, dirs).file
                = NoFile)

\* an export() into a subfolder with a non-ASCII letter, the name being plain,
\* failed with the encoding error
C24_Witness ==
    /\ call.op = "export"
    /\ call.err = "UnicodeEncodeError"
    /\ call.meta = NoFile
    /\ self.name = N1
    /\ self.subfolder = SubSlash
    /\ self.fmu_context = CASE_SYMLINK_REALIZATION

\* the root path of the call made
CalledRoot == ProviderInputs(self, CalledObj, env).rootpath

\* C27: in the file block of a call that returned, without an absolute
\* forcefolder the absolute path is the root path joined with the relative
\* path (and so for the symlink paths), and no call fails deriving the
\* relative path; with an absolute forcefolder under the root the relative
\* path is the absolute path with the root taken off, and with one outside
\* the root it is the absolute path itself.
C27_RelativePath ==
    /\ (IsFileCall /\ ~StartsWithSlash(self.forcefolder)) =>
           call.err # "ValueError: not in the subpath"
    /\ (IsFileCall /\ call.err = "" /\ ~StartsWithSlash(self.forcefolder)) =>
          /\ call.meta.absolute_path = CalledRoot \o call.meta.relative_path
          /\ call.meta.absolute_path_symlink # <<>> =>
               call.meta.absolute_path_symlink
                 = CalledRoot \o call.meta.relative_path_symlink
    /\ (IsFileCall /\ call.err = "" /\ self.forcefolder = UnderRoot) =>
          /\ call.meta.relative_path # call.meta.absolute_path
          /\ call.meta.absolute_path = CalledRoot \o call.meta.relative_path
    /\ (IsFileCall /\ call.err = "" /\ self.forcefolder = AbsFolder) =>
          /\ call.meta.relative_path = call.meta.absolute_path
          /\ Head(call.meta.absolute_path) # Head(CalledRoot)

\* file blocks were made under an absolute forcefolder below the root, given
\* relative to the root
C27_Witness ==
    /\ IsFileCall
    /\ call.err = ""
    /\ self.forcefolder = UnderRoot
    /\ self.subfolder = <<>>
    /\ call.meta.absolute_path = << <<"case">>, <<"x">>, <<"n1", ".", "gri">> >>
    /\ call.meta.relative_path = << <<"x">>, <<"n1", ".", "gri">> >>

\* C28: the checksum an export() injects equals the checksum that
\* generate_metadata(compute_md5=True) reports for the same object under the
\* same settings, for surfaces and for tables, whatever the format flags.
C28_SameChecksum ==
    ExportedNow =>
        /\ generate_metadata(self, CalledObj, TRUE, NoKw, env, dirs).err = ""
        /\ generate_metadata(self, CalledObj, TRUE, NoKw, env, dirs)
             .meta.checksum_md5
           = self.metadata.checksum_md5

(***************************************************************************)
(* The directories on return (C26), checked under SpecPath                 *)
(***************************************************************************)
\* the primary destination is derived: no rule refuses the forcefolder first
PrimaryDerived ==
    ~(AbsoluteForced
      /\ (self.fmu_context = PREPROCESSED \/ ~self.allow_forcefolder_absolute))

C29_RejectedUpdateAtomic ==
    [][(IsCall /\ call'.kw.bad # "none") =>
          (call'.err # "" /\ self' = self)]_vars

(***************************************************************************)
(* The symlinks of an export (C30), checked under Spec                     *)
(***************************************************************************)
\* C30: after an export() that returned, every symlink on disk points to a
\* file that is on disk: the object symlink to the data file written, the
\* sidecar symlink to the sidecar written; no symlink points to a sidecar
\* that was never written, whether the configuration is valid or not.
C30_SymlinksPointToWrittenFiles ==
    ExportedNow =>
        \A l \in fs.link : Has(fs.data, l.body) \/ Has(fs.meta, l.body)

(***************************************************************************)
(* Concurrent creation of the directories (C25), checked under SpecRace    *)
(***************************************************************************)
\* C25: under every interleaving of the two processes' steps no resolution
\* fails, a resolution that returned has all its destinations on disk, no
\* directory ever disappears, and every resolution returns.
C25_CreationToleratesRaces ==
    /\ [](\A p \in Procs :
            /\ fout[p].status # "failed"
            /\ fout[p].status = "done" =>
                 \A i \in 1..Len(RaceDestinations(fin[p])) :
                     RaceDestinations(fin[p])[i] \in dirs)
    /\ [][dirs \subseteq dirs']_vars
    /\ <>(\A p \in Procs : fout[p].status = "done")

\* both processes returned, having resolved destinations that share a prefix
\* they both had to create
C25_Witness ==
    /\ \A p \in Procs : fout[p].status = "done"
    /\ fin["p1"] # fin["p2"]
    /\ fin["p1"].fmu_context = CASE_SYMLINK_REALIZATION
    /\ RaceDestinations(fin["p2"])[1] \in dirs
    /\ RaceDestinations(fin["p1"])[2] \in dirs

=============================================================================
